---- MODULE Spec2Model ----
(***************************************************************************)
(* Model of netlify/functions/summarize.py: the overlap-aware chunker      *)
(* (chunk_text), the chunk summarizer with its fallback (summarize_chunk), *)
(* the rule-based extractors and the request handler.                      *)
(*                                                                         *)
(* A text is kept sparsely: its length and the characters at the few       *)
(* positions that are not an ordinary letter ("a"). Positions are 0-based  *)
(* as in Python.                                                           *)
(***************************************************************************)
EXTENDS Integers, Sequences, FiniteSets, TLC

VARIABLES
    \* position in the function that is running
    pc,
    \* chunk_text: its parameters and locals; cuts records, for every chunk
    \* appended, the start, the hard cut and the end it was sliced with
    text, max_chars, overlap, start, end, L, chunks, cuts,
    \* extract_action_items: the engine's doc, the locals actions and out
    doc, actions, out,
    \* extract_clients: the entities of the doc, topn, freq, the returned list
    ents, topn, freq, ranked,
    \* handler: its position, the request, its locals, the responses returned,
    \* the functions it has called, the calls of summarize_chunk that returned,
    \* the failures of the engine so far and the exception caught
    hpc, event, transcript, idx, chunk_summaries, final_summary, action_items,
    clients, requirements, response, calls, summ_log, failures, raised

chunkVars == <<text, max_chars, overlap, start, end, L, chunks, cuts>>
actionVars == <<doc, actions, out>>
clientVars == <<ents, topn, freq, ranked>>
handlerVars == <<hpc, event, transcript, idx, chunk_summaries, final_summary,
                 action_items, clients, requirements, response, calls,
                 summ_log, failures, raised>>
vars == <<pc, chunkVars, actionVars, clientVars, handlerVars>>

-----------------------------------------------------------------------------
(* Bounds of the model *)

\* most special (non-letter) characters in an input text
MaxMarks == 2
\* most chunks of the list of chunk_text that the model keeps
MaxChunks == 8
\* most sentences of a doc given to extract_action_items
MaxSents == 4
\* most entities of a doc given to extract_clients
MaxEnts == 5

\* the values of topn extract_clients is called with
TopNs == {0, 1, 2, 8}

\* positions at which an input text may hold a special character
MarkPos == {0, 1, 10, 11, 70, 71, 120, 121, 4480, 4481}
\* the calls of chunk_text: <<length of the text, max_chars, overlap>>
ChunkCalls == {<<0, 3, 0>>, <<1, 3, 0>>, <<2, 3, 0>>, <<5, 3, 0>>, <<5, 3, 1>>,
               <<72, 60, 0>>, <<200, 60, 0>>, <<200, 100, 0>>, <<200, 100, 30>>,
               <<4600, 4500, 0>>, <<4600, 4500, 300>>, <<2, 4500, 300>>,
               <<2, 2, 2>>, <<5, 2, 2>>, <<5, 2, 5>>, <<200, 100, 100>>}

-----------------------------------------------------------------------------
(* Strings *)

Min(a, b) == IF a < b THEN a ELSE b
Max(a, b) == IF a > b THEN a ELSE b

SpecialChars == {".", " ", "\n"}

EmptyText == [len |-> 0, sp |-> <<>>]

CharAt(t, i) == IF i \in DOMAIN t.sp THEN t.sp[i] ELSE "a"

\* str.isspace / the regex class \s, on the model's alphabet
IsSpace(c) == c \in {" ", "\n"}

\* a slice index as Python normalises it: negative counts from the end
SliceIndex(i, n) == IF i < 0 THEN Max(0, n + i) ELSE Min(i, n)

\* t[i:j]
PySlice(t, i, j) ==
    LET lo == SliceIndex(i, t.len)
        hi == SliceIndex(j, t.len)
    IN  IF hi <= lo THEN EmptyText
        ELSE [len |-> hi - lo,
              sp  |-> [p \in {q - lo : q \in {r \in DOMAIN t.sp : r >= lo /\ r < hi}}
                         |-> t.sp[p + lo]]]

\* number of leading whitespace characters of t
LeadSpace(t) ==
    LET n == Min(t.len, Cardinality(DOMAIN t.sp))
        stops == {i \in 0..n : i = t.len \/ ~IsSpace(CharAt(t, i))}
    IN  CHOOSE i \in stops : \A k \in stops : i <= k

\* number of trailing whitespace characters of t
TrailSpace(t) ==
    LET n == Min(t.len, Cardinality(DOMAIN t.sp))
        stops == {i \in 0..n : i = t.len \/ ~IsSpace(CharAt(t, t.len - 1 - i))}
    IN  CHOOSE i \in stops : \A k \in stops : i <= k

\* t.strip()
Strip(t) ==
    LET a == LeadSpace(t)
    IN  IF a = t.len THEN EmptyText
        ELSE PySlice(t, a, t.len - TrailSpace(t))

\* value standing for re.search returning None
NoMatch == 0 - 1

\* m.end() of re.search(r"[\.\n]\s", w): the leftmost match, or NoMatch
SearchEnd(w) ==
    LET hits == {i \in DOMAIN w.sp : /\ w.sp[i] \in {".", "\n"}
                                     /\ i + 1 < w.len
                                     /\ IsSpace(CharAt(w, i + 1))}
    IN  IF hits = {} THEN NoMatch
        ELSE (CHOOSE i \in hits : \A k \in hits : i <= k) + 2

-----------------------------------------------------------------------------
(* chunk_text *)

\* half width of the window searched for a sentence boundary
Window == 50

\* end = min(L, start + max_chars)
HardCut(s) == Min(L, s + max_chars)

\* the end of the chunk that starts at s
ChunkEnd(s) ==
    LET e == HardCut(s)
    IN  IF e < L
        THEN LET m == SearchEnd(PySlice(text, e - Window, e + Window))
             IN  IF m # NoMatch
                 THEN LET rel == m - Window
                      IN  Max(s, e - Window + rel)
                 ELSE e
        ELSE e

\* a changed NextStart: the next start is taken back from the hard cut, not
\* from the aligned end
NextStartFromHardCut(s, e) ==
    LET n == HardCut(s) - overlap
    IN  IF n < 0 THEN 0 ELSE n

\* start = end - overlap, clamped at 0
NextStart(s, e) ==
    LET n == e - overlap
    IN  IF n < 0 THEN 0 ELSE n

\* the special characters an input text of length n may hold
Marks(n) ==
    UNION {[S -> SpecialChars] :
               S \in {T \in SUBSET ((MarkPos \cup {n - 1}) \cap (0..(n - 1))) :
                          Cardinality(T) <= MaxMarks}}

\* the value of a transcript field that is not there
NoValue == [type |-> "missing", str |-> EmptyText]

\* the state before any call: no function is running, the locals are empty
Init ==
    /\ pc = "idle"
    /\ text = EmptyText
    /\ max_chars = 0
    /\ overlap = 0
    /\ start = 0
    /\ end = 0
    /\ L = 0
    /\ chunks = <<>>
    /\ cuts = <<>>
    /\ doc = <<>>
    /\ actions = <<>>
    /\ out = <<>>
    /\ ents = <<>>
    /\ topn = 0
    /\ freq = <<>>
    /\ ranked = <<>>
    /\ hpc = "h_idle"
    /\ event = [kind |-> "absent", transcript |-> NoValue]
    /\ transcript = NoValue
    /\ idx = 0
    /\ chunk_summaries = <<>>
    /\ final_summary = <<>>
    /\ action_items = <<>>
    /\ clients = <<>>
    /\ requirements = <<>>
    /\ response = <<>>
    /\ calls = <<>>
    /\ summ_log = <<>>
    /\ failures = {}
    /\ raised = [stage |-> "none", msg |-> "none"]

\* a call chunk_text(text, max_chars, overlap)
ChunkCall ==
    /\ pc = "idle"
    /\ \E c \in ChunkCalls :
          /\ text' \in {[len |-> c[1], sp |-> f] : f \in Marks(c[1])}
          /\ max_chars' = c[2]
          /\ overlap' = c[3]
    /\ pc' = "ct_entry"
    /\ UNCHANGED <<start, end, L, chunks, cuts>>
    /\ UNCHANGED <<actionVars, clientVars, handlerVars>>

\* lines 20-25: strip, the single-chunk return, the loop's initialisation
ChunkEnter ==
    /\ pc = "ct_entry"
    /\ LET t == Strip(text)
       IN  /\ text' = t
           /\ IF t.len <= max_chars
              THEN /\ chunks' = <<t>>
                   /\ pc' = "ct_return"
                   /\ L' = L
              ELSE /\ chunks' = <<>>
                   /\ L' = t.len
                   /\ pc' = IF 0 < t.len THEN "ct_loop" ELSE "ct_return"
    /\ start' = 0
    /\ UNCHANGED <<max_chars, overlap, end, cuts>>
    /\ UNCHANGED <<actionVars, clientVars, handlerVars>>

\* lines 26-34: the loop test has passed; end is cut and aligned
ChunkCut ==
    /\ pc = "ct_loop"
    /\ end' = ChunkEnd(start)
    /\ pc' = "ct_append"
    /\ UNCHANGED <<text, max_chars, overlap, start, L, chunks, cuts>>
    /\ UNCHANGED <<actionVars, clientVars, handlerVars>>

\* lines 35-40: the chunk is appended and start advanced; the model keeps the
\* first MaxChunks chunks of a list
ChunkAppend ==
    /\ pc = "ct_append"
    /\ IF Len(chunks) < MaxChunks
       THEN /\ chunks' = Append(chunks, Strip(PySlice(text, start, end)))
            /\ cuts' = Append(cuts, [start |-> start, hard |-> HardCut(start),
                                     end |-> end])
       ELSE UNCHANGED <<chunks, cuts>>
    /\ start' = NextStart(start, end)
    /\ pc' = IF NextStart(start, end) >= L THEN "ct_return" ELSE "ct_loop"
    /\ UNCHANGED <<text, max_chars, overlap, end, L>>
    /\ UNCHANGED <<actionVars, clientVars, handlerVars>>

NextChunk == ChunkCall \/ ChunkEnter \/ ChunkCut \/ ChunkAppend

SpecChunk == Init /\ [][NextChunk]_vars

\* the interpreter keeps executing the loop: a step that can be taken is taken
SpecChunkFair == SpecChunk /\ WF_vars(NextChunk)

\* The next iteration is a function of start alone, so a loop that is back at
\* a start it has been at never returns: only such loops fill the list, and no
\* returned list lacks a chunk.
FullListRepeats ==
    (pc = "ct_loop" /\ Len(chunks) = MaxChunks)
        => \/ \E i \in 1..(Len(cuts) - 1) : cuts[i + 1].start = start
           \/ start = 0

-----------------------------------------------------------------------------
(* Strings of the engine's sentences, entities and phrases: sequences of    *)
(* characters                                                               *)

UpperCase == <<"A", "B", "C", "D", "E", "F", "G", "H", "I", "J", "K", "L", "M",
               "N", "O", "P", "Q", "R", "S", "T", "U", "V", "W", "X", "Y", "Z">>
LowerCase == <<"a", "b", "c", "d", "e", "f", "g", "h", "i", "j", "k", "l", "m",
               "n", "o", "p", "q", "r", "s", "t", "u", "v", "w", "x", "y", "z">>

LowerChar(c) ==
    IF \E i \in DOMAIN UpperCase : UpperCase[i] = c
    THEN LowerCase[CHOOSE i \in DOMAIN UpperCase : UpperCase[i] = c]
    ELSE c

\* s.lower()
Lower(s) == [i \in DOMAIN s |-> LowerChar(s[i])]

\* s.strip()
StripStr(s) ==
    LET keep == {i \in DOMAIN s : ~IsSpace(s[i])}
    IN  IF keep = {} THEN <<>>
        ELSE SubSeq(s, CHOOSE i \in keep : \A k \in keep : i <= k,
                       CHOOSE i \in keep : \A k \in keep : i >= k)

\* k in s
Contains(k, s) ==
    \E i \in 0..(Len(s) - Len(k)) : SubSeq(s, i + 1, i + Len(k)) = k

\* len(s.split()): the number of maximal runs of non-whitespace characters
WordCount(s) ==
    Cardinality({i \in DOMAIN s : ~IsSpace(s[i]) /\ (i = 1 \/ IsSpace(s[i - 1]))})

RECURSIVE Join(_, _)
\* sep.join(parts)
Join(sep, parts) ==
    IF parts = <<>> THEN <<>>
    ELSE IF Len(parts) = 1 THEN parts[1]
    ELSE parts[1] \o sep \o Join(sep, Tail(parts))

\* xs[:n] for n >= 0
Take(xs, n) == SubSeq(xs, 1, Min(n, Len(xs)))

-----------------------------------------------------------------------------
(* extract_action_items *)

action_keywords ==
    << <<"a", "c", "t", "i", "o", "n">>,
       <<"a", "c", "t", "i", "o", "n", " ", "i", "t", "e", "m">>,
       <<"w", "i", "l", "l">>,
       <<"s", "h", "a", "l", "l">>,
       <<"t", "o", " ", "d", "o">>,
       <<"a", "s", "s", "i", "g", "n">>,
       <<"a", "s", "s", "i", "g", "n", "e", "d", " ", "t", "o">>,
       <<"o", "w", "n", "e", "r">>,
       <<"d", "e", "a", "d", "l", "i", "n", "e">>,
       <<"b", "y", " ">> >>

IsOwner(ent) == ent.label \in {"PERSON", "ORG"}
IsDate(ent) == ent.label \in {"DATE", "TIME"}

EntTexts(es) == [i \in DOMAIN es |-> es[i].text]

\* any(k in low for k in action_keywords), low the stripped, lowered sentence
HasActionKeyword(sent) ==
    \E i \in DOMAIN action_keywords :
        Contains(action_keywords[i], Lower(StripStr(sent.text)))

\* lines 60-71: one entry per sentence that holds a keyword
ScanActions(d) ==
    LET q == SelectSeq(d, HasActionKeyword)
    IN  [i \in DOMAIN q |->
            [text   |-> StripStr(q[i].text),
             owners |-> EntTexts(SelectSeq(q[i].ents, IsOwner)),
             dates  |-> EntTexts(SelectSeq(q[i].ents, IsDate))]]

RECURSIVE DedupeFrom(_, _, _, _)
\* lines 75-79 from the i-th action on, with the locals seen and out
DedupeFrom(as, i, seen, o) ==
    IF i > Len(as) THEN o
    ELSE IF as[i].text \notin seen
         THEN DedupeFrom(as, i + 1, seen \cup {as[i].text}, Append(o, as[i]))
         ELSE DedupeFrom(as, i + 1, seen, o)

\* a changed Dedupe: the entries are keyed by text in a dict, so each text
\* keeps its first place and gets the entry of its last occurrence
DedupeByDict(as) ==
    LET firsts == SelectSeq([i \in DOMAIN as |-> i],
                            LAMBDA i : \A k \in 1..(i - 1) : as[k].text # as[i].text)
    IN  [j \in DOMAIN firsts |->
            as[CHOOSE i \in DOMAIN as :
                   /\ as[i].text = as[firsts[j]].text
                   /\ \A k \in DOMAIN as : as[k].text = as[i].text => k <= i]]

\* lines 73-80
Dedupe(as) == DedupeFrom(as, 1, {}, <<>>)

-----------------------------------------------------------------------------
(* extract_clients *)

\* lines 104-105 on the dict freq, kept as its items in insertion order
CountOne(f, e) ==
    IF \E i \in DOMAIN f : f[i][1] = e
    THEN [i \in DOMAIN f |-> IF f[i][1] = e THEN <<e, f[i][2] + 1>> ELSE f[i]]
    ELSE Append(f, <<e, 1>>)

RECURSIVE CountFrom(_, _, _)
CountFrom(names, i, f) ==
    IF i > Len(names) THEN f
    ELSE CountFrom(names, i + 1, CountOne(f, names[i]))

\* lines 101-105
CountEntities(es) == CountFrom(EntTexts(SelectSeq(es, IsOwner)), 1, <<>>)

\* one item put into a list sorted by descending count, behind its equals
InsertByCount(sorted, item) ==
    LET before == {i \in DOMAIN sorted : sorted[i][2] >= item[2]}
        k == Cardinality(before)
    IN  SubSeq(sorted, 1, k) \o <<item>> \o SubSeq(sorted, k + 1, Len(sorted))

RECURSIVE SortFrom(_, _, _)
SortFrom(items, i, sorted) ==
    IF i > Len(items) THEN sorted
    ELSE SortFrom(items, i + 1, InsertByCount(sorted, items[i]))

RECURSIVE SortAscFrom(_, _, _)
SortAscFrom(items, i, sorted) ==
    IF i > Len(items) THEN sorted
    ELSE LET k == Cardinality({j \in DOMAIN sorted : sorted[j][2] <= items[i][2]})
         IN  SortAscFrom(items, i + 1,
                         SubSeq(sorted, 1, k) \o <<items[i]>>
                             \o SubSeq(sorted, k + 1, Len(sorted)))

\* a changed SortedByCount: sorted(freq.items(), key=count)[::-1], which turns
\* the order of equal counts around
SortedAscendingReversed(items) ==
    LET asc == SortAscFrom(items, 1, <<>>)
    IN  [i \in DOMAIN asc |-> asc[Len(asc) + 1 - i]]

\* line 106: sorted(freq.items(), key=count, reverse=True), a stable sort
SortedByCount(items) == SortFrom(items, 1, <<>>)

\* line 107
TopNames(sorted, n) == [i \in DOMAIN Take(sorted, n) |-> sorted[i][1]]

-----------------------------------------------------------------------------
(* What the engine may return *)

John   == [text |-> "John",   label |-> "PERSON"]
Bob    == [text |-> "Bob",    label |-> "PERSON"]
Acme   == [text |-> "Acme",   label |-> "ORG"]
Friday == [text |-> "Friday", label |-> "DATE"]
FivePm == [text |-> "5pm",    label |-> "TIME"]
Paris  == [text |-> "Paris",  label |-> "GPE"]

\* sentences with the entities found in them: "Will", " Will\n", "ok", "by ",
\* "by 5"
SampleSents ==
    { [text |-> <<"W", "i", "l", "l">>,            ents |-> <<John, Friday>>],
      [text |-> <<" ", "W", "i", "l", "l", "\n">>, ents |-> <<Acme>>],
      [text |-> <<"W", "i", "l", "l">>,            ents |-> <<>>],
      [text |-> <<"o", "k">>,                      ents |-> <<John>>],
      [text |-> <<"b", "y", " ">>,                 ents |-> <<>>],
      [text |-> <<"b", "y", " ", "5">>,            ents |-> <<Paris, FivePm, Acme>>] }

\* the sequences over S of length at most n
SeqUpTo(S, n) == UNION {[1..k -> S] : k \in 0..n}

\* call extract_action_items on a text the engine segments into doc
ActionsCall ==
    /\ pc = "idle"
    /\ doc' \in SeqUpTo(SampleSents, MaxSents)
    /\ pc' = "ai_scan"
    /\ UNCHANGED <<actions, out, chunkVars, clientVars, handlerVars>>

\* lines 57-71
ActionsScan ==
    /\ pc = "ai_scan"
    /\ actions' = ScanActions(doc)
    /\ pc' = "ai_dedupe"
    /\ UNCHANGED <<doc, out, chunkVars, clientVars, handlerVars>>

\* lines 72-80
ActionsDedupe ==
    /\ pc = "ai_dedupe"
    /\ out' = Dedupe(actions)
    /\ pc' = "ai_return"
    /\ UNCHANGED <<doc, actions, chunkVars, clientVars, handlerVars>>

NextActions == ActionsCall \/ ActionsScan \/ ActionsDedupe

SpecActions == Init /\ [][NextActions]_vars

\* call extract_clients(text, topn) on a text in which the engine finds ents
ClientsCall ==
    /\ pc = "idle"
    /\ ents' \in SeqUpTo({John, Bob, Acme, Friday}, MaxEnts)
    /\ topn' \in TopNs
    /\ pc' = "ec_count"
    /\ UNCHANGED <<freq, ranked, chunkVars, actionVars, handlerVars>>

\* lines 100-105
ClientsCount ==
    /\ pc = "ec_count"
    /\ freq' = CountEntities(ents)
    /\ pc' = "ec_sort"
    /\ UNCHANGED <<ents, topn, ranked, chunkVars, actionVars, handlerVars>>

\* lines 106-107
ClientsRank ==
    /\ pc = "ec_sort"
    /\ ranked' = TopNames(SortedByCount(freq), topn)
    /\ pc' = "ec_return"
    /\ UNCHANGED <<ents, topn, freq, chunkVars, actionVars, handlerVars>>

NextClients == ClientsCall \/ ClientsCount \/ ClientsRank

SpecClients == Init /\ [][NextClients]_vars

-----------------------------------------------------------------------------
(* summarize_chunk and extract_requirements_from_phrases *)

Ok(v) == [ok |-> TRUE, val |-> v]
Raise(m) == [ok |-> FALSE, val |-> m]

\* a changed FallbackSentences: the limit is forgotten
FallbackAllSentences(d, sent_limit) ==
    [i \in DOMAIN d.sents |-> StripStr(d.sents[i].text)]

\* line 53: the first sent_limit sentences of the doc, stripped
FallbackSentences(d, sent_limit) ==
    [i \in DOMAIN Take(d.sents, sent_limit) |-> StripStr(d.sents[i].text)]

\* lines 44-53 on one run of the engine: nlp(chunk) may fail, the ranked
\* extraction may fail, doc.sents fails on a doc with no sentence boundaries
SummarizeChunk(run, sent_limit) ==
    IF ~run.nlp_ok THEN Raise("nlp failed")
    ELSE IF run.summary_ok
         THEN Ok([i \in DOMAIN run.summary |-> run.summary[i][1]])
         ELSE IF ~run.doc.segmented THEN Raise("sentence boundaries unset")
              ELSE Ok(FallbackSentences(run.doc, sent_limit))

req_keywords ==
    << <<"r", "e", "q", "u", "i", "r", "e">>,
       <<"n", "e", "e", "d">>,
       <<"s", "h", "o", "u", "l", "d">>,
       <<"m", "u", "s", "t">>,
       <<"d", "e", "l", "i", "v", "e", "r">>,
       <<"s", "u", "p", "p", "o", "r", "t">>,
       <<"i", "m", "p", "l", "e", "m", "e", "n", "t">>,
       <<"s", "e", "t", "u", "p">>,
       <<"i", "n", "t", "e", "g", "r", "a", "t", "i", "o", "n">> >>

\* line 91
KeepPhrase(ph) ==
    \/ \E i \in DOMAIN req_keywords : Contains(req_keywords[i], Lower(ph))
    \/ WordCount(ph) <= 5

\* lines 85-96
ExtractRequirements(d, n) ==
    LET phrases == Take(d.phrases, n)
        reqs == SelectSeq(phrases, KeepPhrase)
    IN  IF reqs = <<>> THEN Take(phrases, Min(Len(phrases), n)) ELSE reqs

-----------------------------------------------------------------------------
(* handler *)

\* defaults of chunk_text
DefaultMaxChars == 4500
DefaultOverlap == 300
\* default topn of extract_clients and of extract_requirements_from_phrases
DefaultTopClients == 8
DefaultTopPhrases == 12

Plain(n) == [len |-> n, sp |-> <<>>]
Str(t) == [type |-> "str", str |-> t]

\* values of the transcript field: "", "aa", "  ", a text of 4500 characters
\* between two spaces, a text of 4600 characters, the number 5
TranscriptValues ==
    { Str(Plain(0)), Str(Plain(2)), Str([len |-> 2, sp |-> (0 :> " " @@ 1 :> " ")]),
      Str([len |-> 4502, sp |-> (0 :> " " @@ 4501 :> " ")]),
      Str([len |-> 4600, sp |-> (4480 :> "." @@ 4481 :> " ")]),
      [type |-> "number", str |-> EmptyText] }

\* requests: no body key, a body that is no JSON, a JSON body that is no
\* object, an object without a transcript field, an object with one
Events ==
    {[kind |-> k, transcript |-> NoValue] : k \in {"absent", "malformed", "nonobject", "object"}}
        \cup {[kind |-> "object", transcript |-> v] : v \in TranscriptValues}

\* the engine's docs: of an empty text, of a meeting, and one whose sentence
\* boundaries are not set
DocEmpty == [segmented |-> TRUE, sents |-> <<>>, phrases |-> <<>>]
DocMeeting ==
    [segmented |-> TRUE,
     sents |-> << [text |-> <<"W", "i", "l", "l">>,            ents |-> <<John, Friday>>],
                  [text |-> <<"o", "k">>,                      ents |-> <<Bob>>],
                  [text |-> <<" ", "W", "i", "l", "l", "\n">>, ents |-> <<Acme>>],
                  [text |-> <<"b", "y", " ", "5">>,            ents |-> <<Paris, FivePm, Acme>>],
                  [text |-> <<"b", "y", " ">>,                 ents |-> <<>>],
                  [text |-> <<"o", "k">>,                      ents |-> <<>>],
                  [text |-> <<"W", "i", "l", "l">>,            ents |-> <<John>>] >>,
     phrases |-> << <<"N", "e", "e", "d">>,
                    <<"a", " ", "b", " ", "c", " ", "d", " ", "e", " ", "f">> >>]
DocUnsegmented == [segmented |-> FALSE, sents |-> <<>>, phrases |-> <<>>]
DocLongPhrase ==
    [segmented |-> TRUE,
     sents |-> << [text |-> <<"o", "k">>, ents |-> <<Bob>>] >>,
     phrases |-> << <<"a", " ", "b", " ", "c", " ", "d", " ", "e", " ", "f">> >>]

EngineDocs == {DocEmpty, DocMeeting, DocUnsegmented, DocLongPhrase}

\* (sentence, score) tuples the ranked extraction may return: k of the doc's
\* sentences, the later the higher ranked
Ranking(d, k) == [i \in 1..k |-> <<d.sents[k + 1 - i].text, k + 1 - i>>]

\* the runs of the engine on one text, the extraction limited to n sentences
EngineRuns(n) ==
    {[nlp_ok |-> FALSE, doc |-> DocEmpty, summary_ok |-> FALSE, summary |-> <<>>]}
        \cup {[nlp_ok |-> TRUE, doc |-> d, summary_ok |-> FALSE, summary |-> <<>>] :
                 d \in EngineDocs}
        \cup UNION {{[nlp_ok |-> TRUE, doc |-> d, summary_ok |-> TRUE, summary |-> Ranking(d, k)] :
                        k \in 0..Min(n, Len(d.sents))} : d \in EngineDocs}

\* the engine's failures in a run of summarize_chunk
RunFailures(run) ==
    IF ~run.nlp_ok THEN {"nlp"}
    ELSE IF run.summary_ok THEN {}
    ELSE IF ~run.doc.segmented THEN {"summary", "sents"} ELSE {"summary"}

\* a changed ErrorResponse: what the earlier stages computed is returned too
ErrorResponsePartial(msg) ==
    [statusCode |-> 500, body |-> [error |-> msg, minutes |-> chunk_summaries]]

\* line 153: the response of the except clause
ErrorResponse(msg) == [statusCode |-> 500, body |-> [error |-> msg]]

\* a changed IsFalsy: only an absent value is refused
IsMissing(v) == v.type = "missing"

\* line 116: not transcript
IsFalsy(v) == v.type = "missing" \/ (v.type = "str" /\ v.str.len = 0)

\* the except clause of line 152 catches what stage raised
Caught(stage, msg) ==
    /\ raised' = [stage |-> stage, msg |-> msg]
    /\ response' = Append(response, ErrorResponse(msg))
    /\ hpc' = "h_done"

\* a request arrives
HandlerCall ==
    /\ hpc = "h_idle"
    /\ pc = "idle"
    /\ event' \in Events
    /\ hpc' = "h_parse"
    /\ UNCHANGED <<pc, chunkVars, actionVars, clientVars, transcript, idx,
                   chunk_summaries, final_summary, action_items, clients,
                   requirements, response, calls, summ_log, failures, raised>>

\* lines 114-117
HandlerParse ==
    /\ hpc = "h_parse"
    /\ IF event.kind = "malformed"
       THEN Caught("parse", "invalid JSON") /\ UNCHANGED transcript
       ELSE IF event.kind = "nonobject"
       THEN Caught("parse", "no attribute get") /\ UNCHANGED transcript
       ELSE LET v == IF event.kind = "absent" \/ event.transcript.type = "missing"
                     THEN Str(EmptyText) ELSE event.transcript
            IN  /\ transcript' = v
                /\ raised' = raised
                /\ IF IsFalsy(v)
                   THEN /\ response' = Append(response,
                               [statusCode |-> 400,
                                body |-> [error |-> "No transcript provided"]])
                        /\ hpc' = "h_done"
                   ELSE /\ response' = response
                        /\ hpc' = "h_chunk"
    /\ UNCHANGED <<pc, chunkVars, actionVars, clientVars, event, idx,
                   chunk_summaries, final_summary, action_items, clients,
                   requirements, calls, summ_log, failures>>

\* line 120: the call chunk_text(transcript)
HandlerChunk ==
    /\ hpc = "h_chunk"
    /\ calls' = Append(calls, "chunk_text")
    /\ IF transcript.type # "str"
       THEN /\ Caught("chunk_text", "no attribute strip")
            /\ UNCHANGED <<pc, text, max_chars, overlap>>
       ELSE /\ text' = transcript.str
            /\ max_chars' = DefaultMaxChars
            /\ overlap' = DefaultOverlap
            /\ pc' = "ct_entry"
            /\ hpc' = "h_chunking"
            /\ UNCHANGED <<raised, response>>
    /\ UNCHANGED <<start, end, L, chunks, cuts, actionVars, clientVars, event,
                   transcript, idx, chunk_summaries, final_summary, action_items,
                   clients, requirements, summ_log, failures>>

\* lines 120-124: chunk_text has returned, the loop over the chunks begins
HandlerChunked ==
    /\ hpc = "h_chunking"
    /\ pc = "ct_return"
    /\ pc' = "idle"
    /\ hpc' = "h_map"
    /\ idx' = 1
    /\ chunk_summaries' = <<>>
    /\ UNCHANGED <<chunkVars, actionVars, clientVars, event, transcript,
                   final_summary, action_items, clients, requirements, response,
                   calls, summ_log, failures, raised>>

\* lines 124-126: one iteration, summarize_chunk(c, sent_limit=5)
HandlerMap ==
    /\ hpc = "h_map"
    /\ idx <= Len(chunks)
    /\ calls' = Append(calls, "summarize_chunk")
    /\ \E run \in EngineRuns(5) :
          LET r == SummarizeChunk(run, 5)
          IN  /\ failures' = failures \cup RunFailures(run)
              /\ IF r.ok
                 THEN /\ chunk_summaries' = chunk_summaries \o r.val
                      /\ idx' = idx + 1
                      /\ summ_log' = Append(summ_log,
                             [n |-> 5, doc |-> run.doc, fell_back |-> ~run.summary_ok,
                              ret |-> r.val])
                      /\ UNCHANGED <<hpc, response, raised>>
                 ELSE /\ Caught("summarize_chunk", r.val)
                      /\ UNCHANGED <<chunk_summaries, idx, summ_log>>
    /\ UNCHANGED <<pc, chunkVars, actionVars, clientVars, event, transcript,
                   final_summary, action_items, clients, requirements>>

\* lines 129-131: the reduce stage, summarize_chunk(combined, sent_limit=6)
HandlerReduce ==
    /\ hpc = "h_map"
    /\ idx > Len(chunks)
    /\ calls' = Append(calls, "summarize_chunk")
    /\ \E run \in EngineRuns(6) :
          LET r == SummarizeChunk(run, 6)
          IN  /\ failures' = failures \cup RunFailures(run)
              /\ IF r.ok
                 THEN /\ final_summary' = Join(<<" ">>, r.val)
                      /\ summ_log' = Append(summ_log,
                             [n |-> 6, doc |-> run.doc, fell_back |-> ~run.summary_ok,
                              ret |-> r.val])
                      /\ hpc' = "h_actions"
                      /\ UNCHANGED <<response, raised>>
                 ELSE /\ Caught("summarize_chunk", r.val)
                      /\ UNCHANGED <<final_summary, summ_log>>
    /\ UNCHANGED <<pc, chunkVars, actionVars, clientVars, event, transcript, idx,
                   chunk_summaries, action_items, clients, requirements>>

\* the runs of the engine on the transcript in an extractor: nlp fails, or
\* gives a doc
DocRuns == {[nlp_ok |-> FALSE, doc |-> DocEmpty]}
               \cup {[nlp_ok |-> TRUE, doc |-> d] : d \in EngineDocs}

\* line 134: extract_action_items(transcript)
HandlerActions ==
    /\ hpc = "h_actions"
    /\ calls' = Append(calls, "extract_action_items")
    /\ \E run \in DocRuns :
          IF ~run.nlp_ok
          THEN /\ Caught("extract_action_items", "nlp failed")
               /\ failures' = failures \cup {"nlp"}
               /\ UNCHANGED action_items
          ELSE IF ~run.doc.segmented
          THEN /\ Caught("extract_action_items", "sentence boundaries unset")
               /\ failures' = failures \cup {"sents"}
               /\ UNCHANGED action_items
          ELSE /\ action_items' = Dedupe(ScanActions(run.doc.sents))
               /\ hpc' = "h_clients"
               /\ UNCHANGED <<failures, response, raised>>
    /\ UNCHANGED <<pc, chunkVars, actionVars, clientVars, event, transcript, idx,
                   chunk_summaries, final_summary, clients, requirements, summ_log>>

RECURSIVE Flatten(_)
Flatten(xs) == IF xs = <<>> THEN <<>> ELSE Head(xs) \o Flatten(Tail(xs))

\* doc.ents: the entities of the doc's sentences, in order
DocEnts(d) == Flatten([i \in DOMAIN d.sents |-> d.sents[i].ents])

\* line 137: extract_clients(transcript), topn = 8
HandlerClients ==
    /\ hpc = "h_clients"
    /\ calls' = Append(calls, "extract_clients")
    /\ \E run \in DocRuns :
          IF ~run.nlp_ok
          THEN /\ Caught("extract_clients", "nlp failed")
               /\ failures' = failures \cup {"nlp"}
               /\ UNCHANGED clients
          ELSE /\ clients' = TopNames(SortedByCount(CountEntities(DocEnts(run.doc))),
                                      DefaultTopClients)
               /\ hpc' = "h_requirements"
               /\ UNCHANGED <<failures, response, raised>>
    /\ UNCHANGED <<pc, chunkVars, actionVars, clientVars, event, transcript, idx,
                   chunk_summaries, final_summary, action_items, requirements,
                   summ_log>>

\* lines 140-150: extract_requirements_from_phrases(transcript), topn = 12,
\* and the response
HandlerRequirements ==
    /\ hpc = "h_requirements"
    /\ calls' = Append(calls, "extract_requirements_from_phrases")
    /\ \E run \in DocRuns :
          IF ~run.nlp_ok
          THEN /\ Caught("extract_requirements_from_phrases", "nlp failed")
               /\ failures' = failures \cup {"nlp"}
               /\ UNCHANGED requirements
          ELSE LET reqs == ExtractRequirements(run.doc, DefaultTopPhrases)
               IN  /\ requirements' = reqs
                   /\ response' = Append(response,
                          [statusCode |-> 200,
                           body |-> [summary      |-> final_summary,
                                     action_items |-> action_items,
                                     clients      |-> clients,
                                     requirements |-> reqs,
                                     minutes      |-> chunk_summaries]])
                   /\ hpc' = "h_done"
                   /\ UNCHANGED <<failures, raised>>
    /\ UNCHANGED <<pc, chunkVars, actionVars, clientVars, event, transcript, idx,
                   chunk_summaries, final_summary, action_items, clients, summ_log>>

Next ==
    \/ HandlerCall
    \/ HandlerParse
    \/ HandlerChunk
    \/ ChunkEnter
    \/ ChunkCut
    \/ ChunkAppend
    \/ HandlerChunked
    \/ HandlerMap
    \/ HandlerReduce
    \/ HandlerActions
    \/ HandlerClients
    \/ HandlerRequirements

Spec == Init /\ [][Next]_vars

-----------------------------------------------------------------------------
(* Properties of chunk_text *)

ValidParams == 0 <= overlap /\ overlap < max_chars

\* C1: for every non-empty text and 0 <= overlap < max_chars, chunk_text
\* terminates and returns a list of at least one chunk.
C1_Terminates ==
    (pc = "ct_entry" /\ text.len > 0 /\ ValidParams)
        ~> (pc = "ct_return" /\ Len(chunks) >= 1)

\* C2: with overlap >= max_chars chunk_text fails before its loop runs: no
\* chunk is appended, the loop is not entered and no list is returned.
C2_FailsFast ==
    overlap >= max_chars => (chunks = <<>> /\ pc \notin {"ct_loop", "ct_return"})

\* C6: for a text longer than max_chars and 0 <= overlap < max_chars the first
\* chunk starts at 0, every later chunk starts at or before the end of the
\* chunk before it, and the loop is left only after a chunk that ends at the
\* length of the text.
C6_NoGap ==
    (ValidParams /\ cuts # <<>>) =>
        /\ cuts[1].start = 0
        /\ \A i \in 1..(Len(cuts) - 1) : cuts[i + 1].start <= cuts[i].end
        /\ pc = "ct_return" => cuts[Len(cuts)].end = L

\* a returned multi-chunk split in which a boundary moved an end
C6_Witness ==
    /\ ValidParams
    /\ pc = "ct_return"
    /\ Len(cuts) >= 3
    /\ \E i \in DOMAIN cuts : cuts[i].end # cuts[i].hard
    /\ cuts[Len(cuts)].end = L

\* C9: with overlap < max_chars start is strictly greater at the beginning of
\* each iteration than at the beginning of the one before, and no chunk ends
\* below its start.
C9_StartAdvances ==
    ValidParams =>
        /\ \A i \in 1..(Len(cuts) - 1) : cuts[i + 1].start > cuts[i].start
        /\ \A i \in DOMAIN cuts : cuts[i].end >= cuts[i].start

\* the starts of the period-or-newline-then-whitespace pairs that lie in the
\* 50 characters before and the 50 characters after position e
BoundariesAround(e) ==
    {j \in DOMAIN text.sp : /\ j >= e - Window
                            /\ j + 1 < e + Window
                            /\ j + 1 < L
                            /\ text.sp[j] \in {".", "\n"}
                            /\ IsSpace(CharAt(text, j + 1))}

\* C10: when the hard cut is below the length of the text and the window
\* around it holds a boundary, end is the position just after that boundary;
\* when it holds none, end is the hard cut.
C10_EndAfterBoundary ==
    \A i \in DOMAIN cuts :
        cuts[i].hard < L =>
            IF BoundariesAround(cuts[i].hard) # {}
            THEN \E j \in BoundariesAround(cuts[i].hard) : cuts[i].end = j + 2
            ELSE cuts[i].end = cuts[i].hard

-----------------------------------------------------------------------------
(* Properties of the extractors *)

\* the first sentence of the doc whose trimmed text is t
FirstSentence(t) ==
    CHOOSE i \in DOMAIN doc :
        /\ StripStr(doc[i].text) = t
        /\ \A k \in 1..(i - 1) : StripStr(doc[k].text) # t

\* C7: the output of extract_action_items holds no trimmed sentence text twice;
\* every scanned text is kept once; each entry is the first occurrence of its
\* sentence in the doc, with that occurrence's owners and dates; the entries
\* are in the order of those first occurrences.
C7_Dedupe ==
    pc = "ai_return" =>
        /\ \A i, j \in DOMAIN out :
              i # j => StripStr(out[i].text) # StripStr(out[j].text)
        /\ \A i \in DOMAIN actions : \E j \in DOMAIN out : out[j].text = actions[i].text
        /\ \A j \in DOMAIN out :
              /\ \E i \in DOMAIN doc : StripStr(doc[i].text) = out[j].text
              /\ LET first == doc[FirstSentence(out[j].text)]
                 IN  /\ out[j].owners =
                            EntTexts(SelectSeq(first.ents,
                                LAMBDA x : x.label \in {"PERSON", "ORG"}))
                     /\ out[j].dates =
                            EntTexts(SelectSeq(first.ents,
                                LAMBDA x : x.label \in {"DATE", "TIME"}))
        /\ \A j, k \in DOMAIN out :
              j < k => FirstSentence(out[j].text) < FirstSentence(out[k].text)

\* a sentence occurs three times, its later occurrences with other owners
C7_Witness ==
    /\ pc = "ai_return"
    /\ Len(out) >= 2
    /\ \E i, j, k \in DOMAIN actions :
          /\ i < j /\ j < k
          /\ actions[i].text = actions[j].text
          /\ actions[j].text = actions[k].text
          /\ actions[i].owners # actions[j].owners

\* the PERSON/ORG mentions among ents
Mentions == {i \in DOMAIN ents : ents[i].label \in {"PERSON", "ORG"}}
MentionCount(n) == Cardinality({i \in Mentions : ents[i].text = n})
FirstMention(n) ==
    CHOOSE i \in Mentions : ents[i].text = n /\ \A k \in Mentions : ents[k].text = n => i <= k
Names == {ents[i].text : i \in Mentions}
\* a is ranked before b: more mentions, or as many and counted first
RanksBefore(a, b) ==
    \/ MentionCount(a) > MentionCount(b)
    \/ MentionCount(a) = MentionCount(b) /\ FirstMention(a) < FirstMention(b)

\* C8: extract_clients returns distinct PERSON/ORG names, a name with more
\* mentions before one with fewer and names with equal counts in the order they
\* were first counted; the result is the first topn names of that ordering.
C8_StableRanking ==
    pc = "ec_return" =>
        /\ \A i \in DOMAIN ranked : ranked[i] \in Names
        /\ \A i, j \in DOMAIN ranked : i < j => RanksBefore(ranked[i], ranked[j])
        /\ Len(ranked) = Min(topn, Cardinality(Names))
        /\ \A n \in Names :
              (\A i \in DOMAIN ranked : ranked[i] # n) =>
                  \A i \in DOMAIN ranked : RanksBefore(ranked[i], n)

\* one name has more mentions than the next, and topn cuts the list between
\* two names with equal counts
C8_Witness ==
    /\ pc = "ec_return"
    /\ \E i \in 1..(Len(ranked) - 1) : MentionCount(ranked[i]) > MentionCount(ranked[i + 1])
    /\ \E n \in Names :
          /\ \A i \in DOMAIN ranked : ranked[i] # n
          /\ MentionCount(n) = MentionCount(ranked[Len(ranked)])
    /\ \E i \in DOMAIN ents : ents[i].label = "DATE"

-----------------------------------------------------------------------------
(* Properties of handler *)

\* the request is a JSON object (or has no body) whose transcript field is
\* missing or the empty string
EmptyTranscript ==
    \/ event.kind = "absent"
    \/ /\ event.kind = "object"
       /\ \/ event.transcript.type = "missing"
          \/ event.transcript.type = "str" /\ event.transcript.str.len = 0

\* C3: a request whose transcript is missing or empty gets the 400 response
\* whose body holds only an error, and none of chunk_text, summarize_chunk and
\* the extractors is called for it.
C3_EmptyIsBadInput ==
    (hpc # "h_idle" /\ EmptyTranscript) =>
        /\ calls = <<>>
        /\ pc = "idle"
        /\ hpc \in {"h_parse", "h_done"}
        /\ hpc = "h_done" =>
              /\ Len(response) = 1
              /\ response[1].statusCode = 400
              /\ DOMAIN response[1].body = {"error"}

\* the request {"transcript": ""} has been answered
C3_Witness ==
    /\ hpc = "h_done"
    /\ event.kind = "object"
    /\ event.transcript.type = "str"
    /\ event.transcript.str.len = 0
    /\ response[1].statusCode = 400

\* a stage has failed with an error that has no local fallback: the body could
\* not be parsed, chunk_text got a value that is no string, the engine failed on
\* a text or could not give the sentences of a doc
StageFailed ==
    \/ hpc \notin {"h_idle", "h_parse"} /\ event.kind \in {"malformed", "nonobject"}
    \/ hpc \notin {"h_idle", "h_parse", "h_chunk"} /\ transcript.type = "number"
    \/ failures \cap {"nlp", "sents"} # {}

\* C4: when a stage fails with an error that has no local fallback, handler
\* returns one response, with status 500 and the body {error: message}; the
\* failing stage is the last one called and the body holds no field of the
\* result.
C4_FailureIsOneError ==
    StageFailed =>
        /\ hpc = "h_done"
        /\ raised.stage # "none"
        /\ Len(response) = 1
        /\ response[1].statusCode = 500
        /\ DOMAIN response[1].body = {"error"}
        /\ response[1].body.error = raised.msg
        /\ IF raised.stage = "parse" THEN calls = <<>>
           ELSE calls # <<>> /\ calls[Len(calls)] = raised.stage

\* extract_clients fails after minutes, a summary and action items were computed
C4_Witness ==
    /\ hpc = "h_done"
    /\ raised.stage = "extract_clients"
    /\ chunk_summaries # <<>>
    /\ final_summary # <<>>
    /\ action_items # <<>>
    /\ response[1].statusCode = 500

====
